---- MODULE Spec2Model ----
(***************************************************************************)
(* A model of ycmd/completers/go/go_completer.py: the gopls adapter.       *)
(*                                                                         *)
(* Python strings are sequences of one-character strings, so that the      *)
(* substring test, abspath, normpath, dirname and strip are computed       *)
(* character by character as the library computes them.                    *)
(***************************************************************************)
EXTENDS Integers, Sequences, FiniteSets, TLC

(***************************************************************************)
(* Python values                                                           *)
(***************************************************************************)
NoneV == [t |-> "None", v |-> <<>>]
Str(s) == [t |-> "str", v |-> s]

SLASH == <<"/">>
DOT == <<".">>
DOTDOT == <<".", ".">>

(***************************************************************************)
(* Bounds of the model                                                     *)
(***************************************************************************)
MaxDepth == 2      \* directory components of an input file path
MaxPatterns == 2   \* entries of a user supplied exclusion list
MaxArgs == 2       \* entries of the user supplied gopls arguments
MaxItems == 2      \* items of a workspace/configuration request
MaxObjects == 3    \* dict objects on the heap when settings are replaced

(***************************************************************************)
(* String library (str and posixpath), as CPython computes it              *)
(***************************************************************************)
\* pat in s
Contains(s, pat) ==
  \E i \in 0..(Len(s) - Len(pat)) : SubSeq(s, i + 1, i + Len(pat)) = pat

StartsWith(s, p) == Len(p) <= Len(s) /\ SubSeq(s, 1, Len(p)) = p

EndsWith(s, p) ==
  Len(p) <= Len(s) /\ SubSeq(s, Len(s) - Len(p) + 1, Len(s)) = p

\* s.split('/')
RECURSIVE Split(_)
Split(s) ==
  IF \A i \in 1..Len(s) : s[i] # "/"
  THEN <<s>>
  ELSE LET i == CHOOSE k \in 1..Len(s) :
                  s[k] = "/" /\ \A j \in 1..(k - 1) : s[j] # "/"
       IN <<SubSeq(s, 1, i - 1)>> \o Split(SubSeq(s, i + 1, Len(s)))

\* '/'.join(comps)
RECURSIVE Join(_)
Join(comps) ==
  IF comps = <<>> THEN <<>>
  ELSE IF Len(comps) = 1 THEN comps[1]
  ELSE comps[1] \o SLASH \o Join(Tail(comps))

\* s.rstrip('/')
RECURSIVE RStripSlash(_)
RStripSlash(s) ==
  IF s # <<>> /\ s[Len(s)] = "/" THEN RStripSlash(SubSeq(s, 1, Len(s) - 1))
  ELSE s

Whitespace == {" ", "\n", "\t"}

\* s.strip()
RECURSIVE Strip(_)
Strip(s) ==
  IF s = <<>> THEN s
  ELSE IF s[1] \in Whitespace THEN Strip(Tail(s))
  ELSE IF s[Len(s)] \in Whitespace THEN Strip(SubSeq(s, 1, Len(s) - 1))
  ELSE s

\* the loop of posixpath.normpath over the components
RECURSIVE NormComps(_, _, _)
NormComps(comps, new_comps, initial_slashes) ==
  IF comps = <<>> THEN new_comps
  ELSE LET comp == Head(comps) IN
    IF comp \in {<<>>, DOT}
    THEN NormComps(Tail(comps), new_comps, initial_slashes)
    ELSE IF \/ comp # DOTDOT
            \/ (initial_slashes = 0 /\ new_comps = <<>>)
            \/ (new_comps # <<>> /\ new_comps[Len(new_comps)] = DOTDOT)
    THEN NormComps(Tail(comps), Append(new_comps, comp), initial_slashes)
    ELSE IF new_comps # <<>>
    THEN NormComps(Tail(comps), SubSeq(new_comps, 1, Len(new_comps) - 1),
                   initial_slashes)
    ELSE NormComps(Tail(comps), new_comps, initial_slashes)

\* posixpath.normpath
normpath(path) ==
  IF path = <<>> THEN DOT
  ELSE LET initial_slashes ==
             IF ~StartsWith(path, SLASH) THEN 0
             ELSE IF StartsWith(path, <<"/", "/">>)
                     /\ ~StartsWith(path, <<"/", "/", "/">>) THEN 2
             ELSE 1
           joined == Join(NormComps(Split(path), <<>>, initial_slashes))
           res == IF initial_slashes = 2 THEN <<"/", "/">> \o joined
                  ELSE IF initial_slashes = 1 THEN SLASH \o joined
                  ELSE joined
       IN IF res = <<>> THEN DOT ELSE res

\* posixpath.join(a, b)
pathjoin(a, b) ==
  IF StartsWith(b, SLASH) THEN b
  ELSE IF a = <<>> \/ EndsWith(a, SLASH) THEN a \o b
  ELSE a \o SLASH \o b

\* posixpath.dirname
dirname(p) ==
  LET slashes == {k \in 1..Len(p) : p[k] = "/"}
      i == IF slashes = {} THEN 0
           ELSE CHOOSE k \in slashes : \A j \in slashes : j <= k
      head == SubSeq(p, 1, i)
  IN IF head # <<>> /\ (\E k \in 1..Len(head) : head[k] # "/")
     THEN RStripSlash(head)
     ELSE head

\* os.getcwd() of the server process
Cwd == <<"/", "g">>

\* os.path.abspath
abspath(path) ==
  normpath(IF StartsWith(path, SLASH) THEN path ELSE pathjoin(Cwd, path))

(***************************************************************************)
(* State                                                                   *)
(***************************************************************************)
VARIABLES
  pc,                        \* "unloaded", "crashed", "loaded", "ready"
  goRun,                     \* how the `go env GOMODCACHE` subprocess ended
  PATHS_TO_GO_MOD_CACHE,     \* module global, line 48
  user_options,              \* the options the completer was built from
  excluded_workspace_paths,  \* self._excluded_workspace_paths
  user_supplied_gopls_args,  \* self._user_supplied_gopls_args
  gopls_path,                \* self._gopls_path
  stderr_file,               \* self._stderr_file, the server's log file
  settings,                  \* self._settings: [has_ls, ls], ls a reference
  heap,                      \* the dict objects references point to
  fsEntries,                 \* <<directory, file name>> pairs that exist
  executables,               \* paths that are runnable files
  loggerLevel,               \* effective level of utils.LOGGER
  wsCall,                    \* last GetWorkspaceForFilepath call
  cmdCall,                   \* last GetCommandLine call
  hoverCall,                 \* last GetDoc / GetType call
  pull                       \* WorkspaceConfigurationResponse in progress

vars == <<pc, goRun, PATHS_TO_GO_MOD_CACHE, user_options,
          excluded_workspace_paths, user_supplied_gopls_args, gopls_path,
          stderr_file, settings, heap, fsEntries, executables, loggerLevel,
          wsCall, cmdCall, hoverCall, pull>>

adapterVars == <<user_options, excluded_workspace_paths,
                 user_supplied_gopls_args, gopls_path>>
envVars == <<fsEntries, executables, loggerLevel, stderr_file>>
settingsVars == <<settings, heap>>
callVars == <<wsCall, cmdCall, hoverCall, pull>>

(***************************************************************************)
(* Module load: GetGoModCachePath, lines 39-48                             *)
(***************************************************************************)
\* the ways subprocess.run(['go', 'env', 'GOMODCACHE'], check=True) ends
GoRuns ==
  { [kind |-> "ok", stdout |-> <<"/", "g", "/", "a", "\n">>],
    [kind |-> "ok", stdout |-> <<"\n">>],
    [kind |-> "CalledProcessError", stdout |-> <<>>],
    [kind |-> "FileNotFoundError", stdout |-> <<>>] }

GetGoModCachePath(run) ==
  IF run.kind = "ok"
  THEN [raised |-> FALSE, value |-> <<Strip(run.stdout)>>]
  ELSE IF run.kind = "CalledProcessError"
  THEN [raised |-> FALSE, value |-> <<>>]
  ELSE [raised |-> TRUE, value |-> <<>>]

\* importing the module runs line 48
LoadModule(run) ==
  /\ pc = "unloaded"
  /\ goRun' = run.kind
  /\ LET r == GetGoModCachePath(run) IN
       IF r.raised
       THEN /\ pc' = "crashed"
            /\ UNCHANGED PATHS_TO_GO_MOD_CACHE
       ELSE /\ pc' = "loaded"
            /\ PATHS_TO_GO_MOD_CACHE' = r.value
  /\ UNCHANGED <<adapterVars, envVars, settingsVars, callVars>>

(***************************************************************************)
(* GoCompleter.__init__, lines 62-73                                       *)
(***************************************************************************)
PATH_TO_GOPLS == "third_party/go/bin/gopls"

ListV(xs) == [t |-> "list", v |-> xs]

\* utils.FindExecutableWithFallback: the first usable of the two, else None
FindExecutableWithFallback(path, fallback) ==
  IF path \in executables THEN path
  ELSE IF fallback \in executables THEN fallback
  ELSE "None"

Construct(opts) ==
  /\ pc = "loaded"
  /\ pc' = "ready"
  /\ user_options' = opts
  /\ user_supplied_gopls_args' = opts.gopls_args
  /\ gopls_path' = FindExecutableWithFallback(opts.gopls_binary_path,
                                              PATH_TO_GOPLS)
  /\ excluded_workspace_paths' =
       IF opts.gopls_excluded_workspace_paths.t = "list"
       THEN opts.gopls_excluded_workspace_paths.v
       ELSE PATHS_TO_GO_MOD_CACHE
  /\ UNCHANGED <<goRun, PATHS_TO_GO_MOD_CACHE, envVars, settingsVars,
                 callVars>>

(***************************************************************************)
(* GoCompleter.GetWorkspaceForFilepath, lines 88-97                        *)
(***************************************************************************)
GetProjectRootFiles == <<"go.mod">>

\* utils.PathsToAllParentFolders of a file: its ancestors, nearest first
RECURSIVE ParentChain(_)
ParentChain(folder) ==
  LET parent == dirname(folder) IN
    IF parent = folder THEN <<>> ELSE <<parent>> \o ParentChain(parent)

PathsToAllParentFolders(path) == ParentChain(normpath(path))

\* next( Path( folder ).glob( root_file ), [] ) is truthy
GlobHit(folder, root_file) == <<abspath(folder), root_file>> \in fsEntries

\* line 90, tested against the raw path instead of its absolute form
IsExcludedRaw(excl, filepath) ==
  \E k \in 1..Len(excl) : Contains(filepath, excl[k])

\* lines 89-90
IsExcluded(excl, filepath) ==
  LET filepath_abs == abspath(filepath) IN
    \E k \in 1..Len(excl) : Contains(filepath_abs, excl[k])

\* the loops of lines 93-96 keeping the last folder that holds a root file
LastRootFolder(folders, project_root_files) ==
  LET hits == {i \in 1..Len(folders) :
                 \E j \in 1..Len(project_root_files) :
                    GlobHit(folders[i], project_root_files[j])}
  IN IF hits = {} THEN 0 ELSE CHOOSE i \in hits : \A k \in hits : k <= i

\* lines 93-96: index of the folder the loops return, 0 if they fall through
FirstRootFolder(folders, project_root_files) ==
  LET hits == {i \in 1..Len(folders) :
                 \E j \in 1..Len(project_root_files) :
                    GlobHit(folders[i], project_root_files[j])}
  IN IF hits = {} THEN 0 ELSE CHOOSE i \in hits : \A k \in hits : i <= k

\* line 97 with the strict flag ignored
FallbackLenient(filepath, strict) == Str(dirname(filepath))

\* line 97
Fallback(filepath, strict) ==
  IF strict THEN NoneV ELSE Str(dirname(filepath))

\* the whole method: its result and the folders it probed, in order
GetWorkspaceForFilepath(excl, filepath, strict) ==
  IF IsExcluded(excl, filepath)
  THEN [ret |-> NoneV, folders |-> <<>>, probes |-> <<>>]
  ELSE LET folders == PathsToAllParentFolders(filepath)
           hit == FirstRootFolder(folders, GetProjectRootFiles)
       IN IF hit > 0
          THEN [ret |-> Str(folders[hit]), folders |-> folders,
                probes |-> SubSeq(folders, 1, hit)]
          ELSE [ret |-> Fallback(filepath, strict), folders |-> folders,
                probes |-> folders]

\* one request is followed per run: the method leaves the adapter unchanged
CallGetWorkspaceForFilepath(filepath, strict) ==
  /\ pc = "ready"
  /\ ~wsCall.done
  /\ LET r == GetWorkspaceForFilepath(excluded_workspace_paths, filepath,
                                      strict)
     IN wsCall' = [done |-> TRUE, filepath |-> filepath, strict |-> strict,
                   ret |-> r.ret, folders |-> r.folders, probes |-> r.probes]
  /\ UNCHANGED <<pc, goRun, PATHS_TO_GO_MOD_CACHE, adapterVars, envVars,
                 settingsVars, cmdCall, hoverCall, pull>>

(***************************************************************************)
(* Initial states and inputs                                               *)
(***************************************************************************)
NoCall == [done |-> FALSE]

\* DefaultSettings, lines 132-145
DefaultSettings ==
  [hoverKind |-> "Structured", hints |-> "all", semanticTokens |-> TRUE]

NoOptions ==
  [gopls_args |-> <<>>, gopls_binary_path |-> "None",
   gopls_excluded_workspace_paths |-> NoneV]

InitAdapter ==
  /\ goRun = "none"
  /\ PATHS_TO_GO_MOD_CACHE = <<>>
  /\ user_options = NoOptions
  /\ excluded_workspace_paths = <<>>
  /\ user_supplied_gopls_args = <<>>
  /\ gopls_path = "None"

InitCalls ==
  /\ wsCall = NoCall
  /\ cmdCall = NoCall
  /\ hoverCall = NoCall
  /\ pull = [pc |-> "idle"]   \* one pull is followed per run

InitSettings ==
  /\ settings = [has_ls |-> TRUE, ls |-> 1]
  /\ heap = <<DefaultSettings>>

\* directory entries that may exist
FsPool ==
  { <<SLASH, "go.mod">>,
    <<<<"/", "g">>, "go.mod">>,
    <<<<"/", "g", "a">>, "go.mod">> }

\* the exclusion patterns a user may configure
ExclPool == { <<"/", "g", "/">>, <<"a", "/", "a">> }

SeqsUpTo(S, n) == UNION {[1..k -> S] : k \in 0..n}

\* file paths handed to the completer: relative or absolute, not normalised
DirComps == {<<"a">>, <<"g">>, DOT, DOTDOT}
FileName == <<"m">>
FilePaths ==
  { (IF abs THEN SLASH ELSE <<>>) \o Join(dirs \o <<FileName>>) :
      abs \in BOOLEAN, dirs \in SeqsUpTo(DirComps, MaxDepth) }

WsUserOptions ==
  { [gopls_args |-> <<>>, gopls_binary_path |-> "None",
     gopls_excluded_workspace_paths |-> e] :
      e \in {NoneV} \cup {ListV(xs) : xs \in SeqsUpTo(ExclPool, MaxPatterns)} }

Init ==
  /\ pc = "unloaded"
  /\ InitAdapter
  /\ InitCalls
  /\ InitSettings
  /\ fsEntries \in SUBSET FsPool
  /\ executables = {PATH_TO_GOPLS}
  /\ loggerLevel = 20
  /\ stderr_file = "gopls_stderr.log"

Next ==
  \/ \E run \in GoRuns : LoadModule(run)
  \/ \E opts \in WsUserOptions : Construct(opts)
  \/ \E filepath \in FilePaths, strict \in BOOLEAN :
        CallGetWorkspaceForFilepath(filepath, strict)

Spec == Init /\ [][Next]_vars

(***************************************************************************)
(* Workspace resolution: C1, C2, C3                                        *)
(***************************************************************************)
\* some exclusion pattern is a substring of the absolute form of the path,
\* stated over the set of patterns
MatchesExclusion(filepath) ==
  \E pat \in {excluded_workspace_paths[k] :
                k \in 1..Len(excluded_workspace_paths)} :
     Contains(abspath(filepath), pat)

Reverse(xs) == [i \in 1..Len(xs) |-> xs[Len(xs) + 1 - i]]

\* the components of the absolute form of a path
AbsComps(path) == SelectSeq(Split(abspath(path)), LAMBDA c : c # <<>>)

\* the ancestors of the path that hold a project root file
MarkedAncestors(filepath) ==
  LET folders == PathsToAllParentFolders(filepath) IN
    {i \in 1..Len(folders) : GlobHit(folders[i], "go.mod")}

\* C1: a path whose absolute form contains an exclusion pattern resolves to
\* None in both modes, no folder is enumerated or probed, and the result is
\* the same for the patterns in the opposite order and for every set of
\* marker files.
C1_ExcludedResolvesToNone ==
  (wsCall.done /\ MatchesExclusion(wsCall.filepath)) =>
     /\ wsCall.ret = NoneV
     /\ wsCall.folders = <<>>
     /\ wsCall.probes = <<>>
     /\ GetWorkspaceForFilepath(Reverse(excluded_workspace_paths),
                                wsCall.filepath, wsCall.strict).ret = NoneV

\* a relative path excluded only through its absolute form, by the second
\* pattern of the list, with go.mod present in its parent
C1_Witness ==
  /\ wsCall.done
  /\ ~StartsWith(wsCall.filepath, SLASH)
  /\ Len(excluded_workspace_paths) = 2
  /\ ~Contains(abspath(wsCall.filepath), excluded_workspace_paths[1])
  /\ Contains(abspath(wsCall.filepath), excluded_workspace_paths[2])
  /\ ~Contains(wsCall.filepath, excluded_workspace_paths[2])
  /\ MarkedAncestors(wsCall.filepath) # {}
  /\ wsCall.ret = NoneV

C9_QueryFailureIsNotFatal ==
  /\ pc # "crashed"
  /\ (pc \in {"loaded", "ready"}
        /\ goRun \in {"CalledProcessError", "FileNotFoundError"}) =>
       PATHS_TO_GO_MOD_CACHE = <<>>
  /\ pc = "ready" =>
       excluded_workspace_paths =
         IF user_options.gopls_excluded_workspace_paths.t = "list"
         THEN user_options.gopls_excluded_workspace_paths.v
         ELSE PATHS_TO_GO_MOD_CACHE

(***************************************************************************)
(* GoCompleter.GetCommandLine, lines 100-106                               *)
(***************************************************************************)
\* logging.DEBUG
DEBUG == 10

\* utils.LOGGER.isEnabledFor( level )
IsEnabledFor(level) == level >= loggerLevel

\* lines 104-105 with the level test dropped
GetCommandLineTracing ==
  <<gopls_path>> \o user_supplied_gopls_args
    \o <<"-logfile", stderr_file>> \o <<"-rpc.trace">>

GetCommandLine ==
  LET cmdline == <<gopls_path>> \o user_supplied_gopls_args
                   \o <<"-logfile", stderr_file>>
  IN IF IsEnabledFor(DEBUG) THEN Append(cmdline, "-rpc.trace") ELSE cmdline

CallGetCommandLine ==
  /\ pc = "ready"
  /\ ~cmdCall.done
  /\ cmdCall' = [done |-> TRUE, ret |-> GetCommandLine]
  /\ UNCHANGED <<pc, goRun, PATHS_TO_GO_MOD_CACHE, adapterVars, envVars,
                 settingsVars, wsCall, hoverCall, pull>>

USER_GOPLS == "/usr/bin/gopls"
ArgPool == {"-logfile", "-rpc.trace", "-remote=auto"}
LogLevels == {5, 10, 20, 30}

LaunchUserOptions ==
  { [gopls_args |-> args, gopls_binary_path |-> bin,
     gopls_excluded_workspace_paths |-> NoneV] :
      args \in SeqsUpTo(ArgPool, MaxArgs), bin \in {"None", USER_GOPLS} }

InitLaunch ==
  /\ pc = "unloaded"
  /\ InitAdapter
  /\ InitCalls
  /\ InitSettings
  /\ fsEntries = {}
  /\ executables \in {{PATH_TO_GOPLS}, {USER_GOPLS}, {USER_GOPLS, PATH_TO_GOPLS}}
  /\ loggerLevel \in LogLevels
  /\ stderr_file = "gopls_stderr.log"

NextLaunch ==
  \/ \E run \in GoRuns : LoadModule(run)
  \/ \E opts \in LaunchUserOptions : Construct(opts)
  \/ CallGetCommandLine

SpecLaunch == InitLaunch /\ [][NextLaunch]_vars

Count(xs, x) == Cardinality({i \in 1..Len(xs) : xs[i] = x})

\* C4 as stated: for every user supplied argument list the command line
\* holds '-logfile' exactly once and '-rpc.trace' iff debug logging is on.
C4_AsStated ==
  cmdCall.done =>
    /\ Count(cmdCall.ret, "-logfile") = 1
    /\ (Count(cmdCall.ret, "-rpc.trace") > 0) <=> (loggerLevel <= DEBUG)

\* C4 amended: the same, for user supplied arguments that hold neither flag;
\* in every case the method adds '-logfile' once, followed by the log file,
\* and adds '-rpc.trace' once iff debug logging is on.
C4_FlagsAddedOnce ==
  cmdCall.done =>
    /\ Count(cmdCall.ret, "-logfile")
         = Count(user_supplied_gopls_args, "-logfile") + 1
    /\ Count(cmdCall.ret, "-rpc.trace")
         = Count(user_supplied_gopls_args, "-rpc.trace")
             + (IF loggerLevel <= DEBUG THEN 1 ELSE 0)
    /\ (/\ Count(user_supplied_gopls_args, "-logfile") = 0
        /\ Count(user_supplied_gopls_args, "-rpc.trace") = 0) =>
          /\ Count(cmdCall.ret, "-logfile") = 1
          /\ (Count(cmdCall.ret, "-rpc.trace") > 0) <=> (loggerLevel <= DEBUG)

\* a launch with a user argument, no user flag, and logging finer than debug
C4_Witness ==
  /\ cmdCall.done
  /\ user_supplied_gopls_args = <<"-remote=auto">>
  /\ gopls_path = USER_GOPLS
  /\ loggerLevel < DEBUG
  /\ cmdCall.ret = <<USER_GOPLS, "-remote=auto", "-logfile", stderr_file,
                     "-rpc.trace">>

(***************************************************************************)
(* GoCompleter.GetDoc and GetType, lines 113-129                           *)
(***************************************************************************)
Return(value, calls) ==
  [kind |-> "return", value |-> value, exc |-> "", msg |-> "",
   calls |-> calls]

Raise(exc, msg, calls) ==
  [kind |-> "raise", value |-> <<>>, exc |-> exc, msg |-> msg,
   calls |-> calls]

\* what the hover request ends in: NoHoverInfoException, or a hover whose
\* 'value' is either a JSON object (its members in order) or plain text
GetHoverResponse(hover) ==
  IF hover.kind = "NoHoverInfo"
  THEN [raised |-> TRUE, value |-> hover]
  ELSE [raised |-> FALSE, value |-> hover]

\* json.loads of an object: a later member replaces an earlier one of the
\* same name; text that is not JSON raises JSONDecodeError
json_loads(value) ==
  IF value.kind # "object"
  THEN [raised |-> TRUE, dict |-> <<>>]
  ELSE LET members == value.members
           keys == {members[i][1] : i \in 1..Len(members)}
           last(k) == CHOOSE i \in 1..Len(members) :
                        /\ members[i][1] = k
                        /\ \A j \in (i + 1)..Len(members) : members[j][1] # k
       IN [raised |-> FALSE, dict |-> [k \in keys |-> members[last(k)][2]]]

\* responses.BuildDetailedInfoResponse
BuildDetailedInfoResponse(text) == [detailed_info |-> text]

\* responses.BuildDisplayMessageResponse
BuildDisplayMessageResponse(text) == [message |-> text]

HOVER == <<"GetHoverResponse">>

\* GetDoc returning the concatenation as it is, without strip()
GetDocUnstripped(hover) ==
  LET h == GetHoverResponse(hover)
      parsed == json_loads(h.value)
  IN
  IF ~settings.has_ls THEN Raise("KeyError", "ls", <<>>)
  ELSE IF "hoverKind" \notin DOMAIN heap[settings.ls]
  THEN Raise("KeyError", "hoverKind", <<>>)
  ELSE IF heap[settings.ls].hoverKind # "Structured"
  THEN Raise("AssertionError", "", <<>>)
  ELSE IF h.raised
  THEN Raise("RuntimeError", "No documentation available.", HOVER)
  ELSE IF parsed.raised THEN Raise("JSONDecodeError", "", HOVER)
  ELSE IF "signature" \notin DOMAIN parsed.dict
  THEN Raise("KeyError", "signature", HOVER)
  ELSE IF "fullDocumentation" \notin DOMAIN parsed.dict
  THEN Raise("KeyError", "fullDocumentation", HOVER)
  ELSE Return(BuildDetailedInfoResponse(
                parsed.dict.signature \o <<"\n">>
                  \o parsed.dict.fullDocumentation), HOVER)

\* lines 113-120
GetDoc(hover) ==
  LET h == GetHoverResponse(hover)
      parsed == json_loads(h.value)
  IN
  IF ~settings.has_ls THEN Raise("KeyError", "ls", <<>>)
  ELSE IF "hoverKind" \notin DOMAIN heap[settings.ls]
  THEN Raise("KeyError", "hoverKind", <<>>)
  ELSE IF heap[settings.ls].hoverKind # "Structured"
  THEN Raise("AssertionError", "", <<>>)
  ELSE IF h.raised
  THEN Raise("RuntimeError", "No documentation available.", HOVER)
  ELSE IF parsed.raised THEN Raise("JSONDecodeError", "", HOVER)
  ELSE IF "signature" \notin DOMAIN parsed.dict
  THEN Raise("KeyError", "signature", HOVER)
  ELSE IF "fullDocumentation" \notin DOMAIN parsed.dict
  THEN Raise("KeyError", "fullDocumentation", HOVER)
  ELSE Return(BuildDetailedInfoResponse(
                Strip(parsed.dict.signature \o <<"\n">>
                        \o parsed.dict.fullDocumentation)), HOVER)

\* GetType with the except clause of lines 128-129 left out
GetTypeUncaught(hover) ==
  LET h == GetHoverResponse(hover)
      parsed == json_loads(h.value)
  IN
  IF h.raised THEN Raise("NoHoverInfoException", "", HOVER)
  ELSE IF parsed.raised THEN Raise("JSONDecodeError", "", HOVER)
  ELSE IF "signature" \notin DOMAIN parsed.dict
  THEN Raise("KeyError", "signature", HOVER)
  ELSE Return(BuildDisplayMessageResponse(parsed.dict.signature), HOVER)

\* lines 123-129
GetType(hover) ==
  LET h == GetHoverResponse(hover)
      parsed == json_loads(h.value)
  IN
  IF h.raised THEN Raise("RuntimeError", "Unknown type.", HOVER)
  ELSE IF parsed.raised THEN Raise("JSONDecodeError", "", HOVER)
  ELSE IF "signature" \notin DOMAIN parsed.dict
  THEN Raise("KeyError", "signature", HOVER)
  ELSE Return(BuildDisplayMessageResponse(parsed.dict.signature), HOVER)

CallGetDoc(hover) ==
  /\ pc = "ready"
  /\ hoverCall' = [done |-> TRUE, op |-> "GetDoc", hover |-> hover,
                   out |-> GetDoc(hover)]
  /\ UNCHANGED <<pc, goRun, PATHS_TO_GO_MOD_CACHE, adapterVars, envVars,
                 settingsVars, wsCall, cmdCall, pull>>

CallGetType(hover) ==
  /\ pc = "ready"
  /\ hoverCall' = [done |-> TRUE, op |-> "GetType", hover |-> hover,
                   out |-> GetType(hover)]
  /\ UNCHANGED <<pc, goRun, PATHS_TO_GO_MOD_CACHE, adapterVars, envVars,
                 settingsVars, wsCall, cmdCall, pull>>

\* signatures and documentation texts of the hovers, some with surrounding
\* whitespace
Signatures == { <<"f", "(", ")">>, <<" ", "f">>, <<>> }
Documentations == { <<"D", ".">>, <<"D", " ", "x", "\n">>, <<>> }

Hovers ==
  { [kind |-> "NoHoverInfo", members |-> <<>>],
    [kind |-> "text", members |-> <<>>] }
  \cup { [kind |-> "object",
          members |-> << <<"signature", sig>>, <<"fullDocumentation", doc>> >>] :
           sig \in Signatures, doc \in Documentations }
  \cup { [kind |-> "object", members |-> << <<"signature", sig>> >>] :
           sig \in Signatures }
  \cup { [kind |-> "object",
          members |-> << <<"signature", <<"g">> >>,
                         <<"fullDocumentation", <<>> >>,
                         <<"signature", sig>> >>] : sig \in Signatures }

\* the states self._settings is found in: the defaults under 'ls', another
\* hover kind, an 'ls' without a hover kind, no 'ls' at all
SettingsStates ==
  { [settings |-> [has_ls |-> TRUE, ls |-> 1], heap |-> <<DefaultSettings>>],
    [settings |-> [has_ls |-> TRUE, ls |-> 1],
     heap |-> <<[hoverKind |-> "FullDocumentation", hints |-> "all",
                 semanticTokens |-> TRUE]>>],
    [settings |-> [has_ls |-> TRUE, ls |-> 1],
     heap |-> <<[semanticTokens |-> FALSE]>>],
    [settings |-> [has_ls |-> FALSE, ls |-> 0], heap |-> <<>>] }

\* a completer built from no options after a successful module load
InitReady ==
  /\ pc = "ready"
  /\ goRun = "ok"
  /\ PATHS_TO_GO_MOD_CACHE = << <<"/", "g", "/", "a">> >>
  /\ user_options = NoOptions
  /\ excluded_workspace_paths = PATHS_TO_GO_MOD_CACHE
  /\ user_supplied_gopls_args = <<>>
  /\ gopls_path = PATH_TO_GOPLS
  /\ fsEntries = {}
  /\ executables = {PATH_TO_GOPLS}
  /\ loggerLevel = 20
  /\ stderr_file = "gopls_stderr.log"

InitHover ==
  /\ InitReady
  /\ InitCalls
  /\ \E st \in SettingsStates : settings = st.settings /\ heap = st.heap

NextHover ==
  \/ \E hover \in Hovers : CallGetDoc(hover)
  \/ \E hover \in Hovers : CallGetType(hover)

SpecHover == InitHover /\ [][NextHover]_vars

HoverMode ==
  IF settings.has_ls /\ "hoverKind" \in DOMAIN heap[settings.ls]
  THEN heap[settings.ls].hoverKind
  ELSE "unset"

\* the signature and documentation fields of a hover, as the decoded object
\* holds them
FieldOf(hover, name) ==
  LET ms == hover.members
      i == CHOOSE k \in 1..Len(ms) :
             ms[k][1] = name /\ \A j \in (k + 1)..Len(ms) : ms[j][1] # name
  IN ms[i][2]

HasField(hover, name) ==
  hover.kind = "object"
    /\ \E k \in 1..Len(hover.members) : hover.members[k][1] = name

IsTrimmed(text) ==
  text = <<>> \/ (text[1] \notin Whitespace /\ text[Len(text)] \notin Whitespace)

C7_HoverTexts ==
  /\ [](( /\ hoverCall.done
          /\ HasField(hoverCall.hover, "signature")
          /\ hoverCall.out.kind = "return" ) =>
          LET sig == FieldOf(hoverCall.hover, "signature") IN
            IF hoverCall.op = "GetType"
            THEN hoverCall.out.value = [message |-> sig]
            ELSE LET text == hoverCall.out.value.detailed_info
                     whole == sig \o <<"\n">>
                                \o FieldOf(hoverCall.hover, "fullDocumentation")
                 IN /\ IsTrimmed(text)
                    /\ \E i \in 0..Len(whole) :
                         /\ text = SubSeq(whole, i + 1, i + Len(text))
                         /\ \A k \in 1..i : whole[k] \in Whitespace
                         /\ \A k \in (i + Len(text) + 1)..Len(whole) :
                              whole[k] \in Whitespace)
  /\ []((hoverCall.done /\ HasField(hoverCall.hover, "signature")
           /\ (hoverCall.op = "GetType"
                 \/ (HoverMode = "Structured"
                       /\ HasField(hoverCall.hover, "fullDocumentation")))) =>
          hoverCall.out.kind = "return")
  /\ [][ /\ <<settings, heap, adapterVars>>' = <<settings, heap, adapterVars>>
         /\ (hoverCall.done /\ hoverCall'.op = hoverCall.op
               /\ hoverCall'.hover = hoverCall.hover) =>
              hoverCall'.out = hoverCall.out ]_vars

\* GetDoc on a hover whose signature starts with a blank and whose
\* documentation ends with a newline
C7_Witness ==
  /\ hoverCall.done
  /\ hoverCall.op = "GetDoc"
  /\ hoverCall.hover.kind = "object"
  /\ hoverCall.hover.members =
       << <<"signature", <<" ", "f">> >>,
          <<"fullDocumentation", <<"D", " ", "x", "\n">> >> >>
  /\ hoverCall.out.kind = "return"
  /\ hoverCall.out.value.detailed_info = <<"f", "\n", "D", " ", "x">>

\* C8 as stated: with a hover mode other than the structured one, GetDoc and
\* GetType both fail with an assertion failure.
C8_AsStated ==
  (hoverCall.done /\ HoverMode \notin {"Structured", "unset"}) =>
     /\ hoverCall.out.kind = "raise"
     /\ hoverCall.out.exc = "AssertionError"

(***************************************************************************)
(* GoCompleter.WorkspaceConfigurationResponse, lines 155-160               *)
(***************************************************************************)
EmptyDict == <<>>

\* the element expression of line 159 building a copy for every item
EntryCopied(h) ==
  [ref |-> Len(h) + 1,
   heap |-> Append(h, IF settings.has_ls THEN h[settings.ls] ELSE EmptyDict)]

\* self._settings.get( 'ls', {} ): the reference held under 'ls', else a
\* dict created by this evaluation of the default
Entry(h) ==
  IF settings.has_ls
  THEN [ref |-> settings.ls, heap |-> h]
  ELSE [ref |-> Len(h) + 1, heap |-> Append(h, EmptyDict)]

\* the comprehension over request[ 'params' ][ 'items' ]
RECURSIVE Comprehension(_, _, _)
Comprehension(items, h, out) ==
  IF items = <<>> THEN [ret |-> out, heap |-> h]
  ELSE LET e == Entry(h) IN
         Comprehension(Tail(items), e.heap, Append(out, e.ref))

WorkspaceConfigurationResponse(request) ==
  Comprehension(request.params.items, heap, <<>>)

CallWorkspaceConfigurationResponse(request) ==
  /\ pc = "ready"
  /\ pull.pc = "idle"
  /\ LET r == WorkspaceConfigurationResponse(request) IN
       /\ pull' = [pc |-> "returned", items |-> request.params.items,
                   settings |-> settings, before |-> Len(heap),
                   ret |-> r.ret]
       /\ heap' = r.heap
  /\ UNCHANGED <<pc, goRun, PATHS_TO_GO_MOD_CACHE, adapterVars, envVars,
                 settings, wsCall, cmdCall, hoverCall>>

\* the same method one bytecode step at a time: the comprehension starts,
\* evaluates its element once per item, and returns
PullBegin(request) ==
  /\ pc = "ready"
  /\ pull.pc = "idle"
  /\ pull' = [pc |-> "iter", items |-> request.params.items,
              settings |-> settings, before |-> Len(heap), ret |-> <<>>]
  /\ UNCHANGED <<pc, goRun, PATHS_TO_GO_MOD_CACHE, adapterVars, envVars,
                 settingsVars, wsCall, cmdCall, hoverCall>>

PullEntry ==
  /\ pull.pc = "iter"
  /\ Len(pull.ret) < Len(pull.items)
  /\ LET e == Entry(heap) IN
       /\ pull' = [pull EXCEPT !.ret = Append(@, e.ref)]
       /\ heap' = e.heap
  /\ UNCHANGED <<pc, goRun, PATHS_TO_GO_MOD_CACHE, adapterVars, envVars,
                 settings, wsCall, cmdCall, hoverCall>>

PullReturn ==
  /\ pull.pc = "iter"
  /\ Len(pull.ret) = Len(pull.items)
  /\ pull' = [pull EXCEPT !.pc = "returned"]
  /\ UNCHANGED <<pc, goRun, PATHS_TO_GO_MOD_CACHE, adapterVars, envVars,
                 settingsVars, wsCall, cmdCall, hoverCall>>

\* a runtime configuration update by the hosting framework: self._settings
\* is replaced by a new mapping whose 'ls' is a new dict
UpdateSettings(ls) ==
  /\ pc = "ready"
  /\ Len(heap) < MaxObjects
  /\ heap' = Append(heap, ls)
  /\ settings' = [has_ls |-> TRUE, ls |-> Len(heap) + 1]
  /\ UNCHANGED <<pc, goRun, PATHS_TO_GO_MOD_CACHE, adapterVars, envVars,
                 callVars>>

ItemPool == {"gopls", "gopls:/g/a"}

Requests ==
  { [method |-> "workspace/configuration", params |-> [items |-> items]] :
      items \in SeqsUpTo(ItemPool, MaxItems) }

LsValues ==
  { DefaultSettings,
    [hoverKind |-> "FullDocumentation", hints |-> "all",
     semanticTokens |-> FALSE] }

InitConfig ==
  /\ InitReady
  /\ InitCalls
  /\ \E st \in SettingsStates : settings = st.settings /\ heap = st.heap

\* updates and pulls taking turns
NextConfig ==
  \/ \E request \in Requests : CallWorkspaceConfigurationResponse(request)
  \/ \E ls \in LsValues : UpdateSettings(ls)

SpecConfig == InitConfig /\ [][NextConfig]_vars

\* updates running while a pull is answered
NextPull ==
  \/ \E request \in Requests : PullBegin(request)
  \/ PullEntry
  \/ PullReturn
  \/ \E ls \in LsValues : UpdateSettings(ls)

SpecPull == InitConfig /\ [][NextPull]_vars

\* C5 as stated: N entries, all of them one and the same object, whatever
\* the settings hold at the call.
C5_AsStated ==
  pull.pc = "returned" =>
    /\ Len(pull.ret) = Len(pull.items)
    /\ \A i, j \in 1..Len(pull.ret) : pull.ret[i] = pull.ret[j]

\* C5 amended: N entries; with an 'ls' subsection every entry is that one
\* object; without one every entry is an empty dict created for it, equal
\* to and distinct from the others.
C5_SharedOrFreshEntries ==
  pull.pc = "returned" =>
    /\ Len(pull.ret) = Len(pull.items)
    /\ \A i \in 1..Len(pull.ret) : pull.ret[i] \in 1..Len(heap)
    /\ pull.settings.has_ls =>
         \A i \in 1..Len(pull.ret) : pull.ret[i] = pull.settings.ls
    /\ ~pull.settings.has_ls =>
         /\ \A i \in 1..Len(pull.ret) :
              pull.ret[i] > pull.before /\ heap[pull.ret[i]] = EmptyDict
         /\ \A i, j \in 1..Len(pull.ret) :
              i # j => pull.ret[i] # pull.ret[j]

\* a pull of two items answered from settings replaced at run time
C5_Witness ==
  /\ pull.pc = "returned"
  /\ Len(pull.items) = 2
  /\ pull.items[1] # pull.items[2]
  /\ pull.settings.has_ls
  /\ pull.settings.ls > 1
  /\ pull.ret = <<pull.settings.ls, pull.settings.ls>>

\* C10: every entry of one response shows the same version of the settings
\* subsection, whatever update runs while the response is built.
C10_OneVersionPerResponse ==
  pull.pc = "returned" =>
    \A i, j \in 1..Len(pull.ret) : heap[pull.ret[i]] = heap[pull.ret[j]]
====
